---- MODULE Spec2Model ----
(***************************************************************************)
(* The system-admin frontend's authorization core:                         *)
(*   frontend-system/src/contexts/AuthContext.tsx  (AuthProvider)          *)
(*   frontend-system/src/lib/api.ts                (apiRequest)            *)
(*   frontend-system App                           (ProtectedRoute)        *)
(*                                                                         *)
(* JavaScript runs the handlers on one thread; each action below is one    *)
(* run-to-completion segment of a handler, from one await to the next.     *)
(* Spec leaves the clock out; SpecTimed counts time in milliseconds, in    *)
(* steps of TickMs.                                                        *)
(***************************************************************************)
EXTENDS Integers, Sequences, FiniteSets, TLC

\* ---------------------------------------------------------------- bounds
MaxEvents == 2          \* session-change events other than INITIAL_SESSION
MaxInitialEvents == 1   \* INITIAL_SESSION events delivered
MaxAgeTicks == 2        \* the age of a check is counted up to this many ticks

\* ------------------------------------------------------ program constants
ApiTimeoutMs == 10000     \* api.ts: setTimeout(() => controller.abort(), 10000)
CheckTimeoutMs == 15000   \* AuthContext.tsx: checkUserPermissions' timer

\* the model's clock advances in steps of one fetch timeout
TickMs == ApiTimeoutMs
MaxAgeMs == MaxAgeTicks * TickMs

\* ------------------------------------------------------------ value sets
Users == {"A", "B"}
NoUser == "null"
Tokens == {"t1"}
Sessions == [user : Users, token : Tokens]
NoSession == [user |-> NoUser, token |-> ""]

\* is_system_admin in the response body: the boolean true, the boolean
\* false, a truthy non-boolean (1, "true"), or no such field
Flags == {"true", "false", "truthy", "absent"}
\* what response.json() yields: an object with the flag, or a rejection
Bodies == Flags \cup {"malformed"}

EventTags == {"INITIAL_SESSION", "SIGNED_IN", "TOKEN_REFRESHED", "SIGNED_OUT"}

\* handler 0 is getInitialSession, 1..MaxEvents the invocations of the
\* onAuthStateChange callback that got past the INITIAL_SESSION filter.
\* A handler ends in "done" (its check read a 2xx response), "failed" (its
\* check took an early return or caught an error), "cleared" (the event
\* carried no user), "noUser" (the initial fetch found no user) or "threw"
\* (the initial fetch threw and the catch block logged it).
InitialHandler == 0
Handlers == 0..MaxEvents
Outstanding == {"headers", "fetch", "body"}
Settled == {"done", "failed"}
Ended == Settled \cup {"cleared", "noUser", "threw"}
Phases == {"idle", "getSession"} \cup Outstanding \cup Ended

NoCheck == [uid |-> NoUser, age |-> 0, fetchAge |-> 0, ok |-> FALSE]

\* A consumer of the context may call checkSystemAdminPermission itself, with
\* any user id and with or without a session: no session (NoSession), a
\* session without access token, one with a token the store has replaced
\* since ("t0"), or one with the store's token.
SuppliedTokens == Tokens \cup {"", "t0"}
SuppliedSessions == [user : Users, token : SuppliedTokens] \cup {NoSession}
NoRequest == [method |-> "", url |-> "", authorization |-> ""]
NoResponse == [ok |-> FALSE, body |-> "none"]
CallPhases == {"none", "getSession", "headers", "fetch", "body", "returned"}
NoCall == [phase |-> "none", userId |-> NoUser, supplied |-> FALSE,
           currentSession |-> NoSession, fetchedSession |-> FALSE,
           getSessionCalls |-> 0, request |-> NoRequest,
           response |-> NoResponse, threw |-> FALSE, result |-> FALSE]

Views == {"SPINNER", "REDIRECT_LOGIN", "FORBIDDEN", "RENDER"}

\* signOut of the system-admin provider and what supabase.auth.signOut() does
NoSignOut == [phase |-> "idle", result |-> "none", rejected |-> FALSE]
SignOutResults == {"ok", "error", "throws"}

\* The main app: its routes (CharaxyContext.tsx lines 62-98: "/" is the only
\* route without requireAuth and redirects to /dashboard, the others redirect
\* to the default "/"), and how many session-change events it is sent.
MaxMainEvents == 2
Routes == {[path |-> "/", requireAuth |-> FALSE, redirectPath |-> "/dashboard"],
           [path |-> "/dashboard", requireAuth |-> TRUE, redirectPath |-> "/"],
           [path |-> "/account", requireAuth |-> TRUE, redirectPath |-> "/"]}
Paths == {"/", "/dashboard", "/account"}
RouteOf(path) == CHOOSE r \in Routes : r.path = path
NoPermissionCall == [fn |-> "none", userId |-> NoUser, result |-> FALSE]
PermissionFns == {"checkAdminPermission", "checkTenantAdminPermission"}

\* The Members page: the lists systemApi.getUsers() may answer with, and how
\* many grant/revoke calls may be awaiting the backend at once.
MaxOps == 2
MemberIds == Users
UserLists ==
  {<<>>} \cup
  {<<[id |-> a, is_system_admin |-> fa], [id |-> b, is_system_admin |-> fb]>> :
     <<a, b, fa, fb>> \in {t \in MemberIds \X MemberIds \X BOOLEAN \X BOOLEAN :
                             t[1] # t[2]}}
OpKinds == {"grant", "revoke"}
Ops == [kind : OpKinds, userId : MemberIds]
NoOp == [kind |-> "none", userId |-> NoUser, outcome |-> "none"]

\* apiRequest in the two API clients: what supabase.auth.getSession() may
\* resolve with (no session, a session without access token, a session with
\* one) and the calls the exported API objects make.
ApiClients == {"system", "main"}
ApiSessions == Sessions \cup {NoSession} \cup [user : Users, token : {""}]
ApiMethods == {"GET", "POST", "DELETE"}
ApiEndpoints == {"/api/v1/admin/system/users", "/charaxy/nodes/",
                 "/charaxy/blocks/reorder/"}
ApiOutcomes == {"ok", "http_error", "network", "timeout"}
NoApiCall == [client |-> "none", dev |-> FALSE, method |-> "", endpoint |-> "",
              phase |-> "none", session |-> NoSession, request |-> NoRequest,
              outcome |-> "none"]

\* useAsyncState: the values asyncFn may resolve with, what it may reject
\* with (an Error with a message, or a value that is no Error), and how many
\* calls of execute may overlap.
MaxExecutes == 2
AsyncValues == {"v1", "v2"}
AsyncErrors == {[isError |-> TRUE, message |-> "m1"],
                [isError |-> TRUE, message |-> "m2"],
                [isError |-> FALSE, message |-> ""]}
DefaultErrorMessage == "error occurred"
NoExecute == [outcome |-> "none", returned |-> "null",
              rejection |-> [isError |-> FALSE, message |-> ""],
              thrown |-> [isError |-> FALSE, message |-> ""]]

\* useBlockSorter: the page's blocks (lists of distinct block ids, at most
\* MaxBlocks long); indexes count from 0 as in the code, NoIndex is null.
MaxBlocks == 3
BlockIds == {"b1", "b2", "b3", "b4"}
NoIndex == -1
BlockLists ==
  {l \in UNION {[1..n -> BlockIds] : n \in 0..MaxBlocks} :
     \A i, j \in 1..Len(l) : i # j => l[i] # l[j]}

\* useBlockEditor: the block being edited, its two fields, and the texts a
\* field may hold, given by their length and whether trim() leaves nothing.
MaxSaves == 2
EditedBlocks == {"b1"}
Fields == {"title", "content"}
TitleMaxLength == 100
ContentMaxLength == 400
Undefined == [len |-> -1, blank |-> TRUE]
TitleTexts == {[len |-> 0, blank |-> TRUE], [len |-> 3, blank |-> TRUE],
               [len |-> 100, blank |-> FALSE], [len |-> 101, blank |-> FALSE]}
ContentTexts == {[len |-> 0, blank |-> TRUE], [len |-> 400, blank |-> FALSE],
                 [len |-> 401, blank |-> FALSE]}
TextsOf(field) == IF field = "title" THEN TitleTexts ELSE ContentTexts
NoEditEnd == [blockId |-> "", field |-> "", outcome |-> "none",
              onError |-> "none"]

VARIABLES
  store,          \* the Session Store's current session
  user,           \* useState: user (a user id or NoUser)
  session,        \* useState: session
  loading,        \* useState: loading
  isSystemAdmin,  \* useState: isSystemAdmin
  pc,             \* where each handler invocation stands
  chk,            \* the permission check each handler is awaiting
  nInitial,       \* INITIAL_SESSION events delivered so far
  nEvents,        \* callback invocations that got past the filter
  adminReported,  \* some 2xx response carried is_system_admin: true
  rejected,       \* some checkSystemAdminPermission promise rejected
  view,           \* what ProtectedRoute renders for the current snapshot
  mounted,        \* the effect's cleanup has not run
  call,           \* a call of checkSystemAdminPermission through the context
  signingOut,     \* a call of the system-admin provider's signOut
  mainAuth,       \* the main app's AuthProvider and the route it guards
  members,        \* the system-admin Members page
  api,            \* a call of apiRequest in one of the two API clients
  asyncState,     \* a useAsyncState hook
  sorter,         \* a useBlockSorter hook
  editor          \* a useBlockEditor hook

vars == <<store, user, session, loading, isSystemAdmin, pc, chk, nInitial,
          nEvents, adminReported, rejected, view, mounted, call, signingOut,
          mainAuth, members, api, asyncState, sorter, editor>>

\* the state outside the system-admin AuthProvider and its check
pages == <<mainAuth, members, api, asyncState, sorter, editor>>

\* the system-admin AuthProvider, its check and its signOut
system == <<store, user, session, loading, isSystemAdmin, pc, chk, nInitial,
            nEvents, adminReported, rejected, view, mounted, call, signingOut>>

auth == <<user, session, loading, isSystemAdmin>>

Min(a, b) == IF a < b THEN a ELSE b

\* ------------------------------------------------------------ ProtectedRoute
\* the user test placed before the loading test
GuardUserFirst(snap) ==
  IF snap.user = NoUser THEN "REDIRECT_LOGIN"
  ELSE IF snap.loading THEN "SPINNER"
  ELSE IF ~snap.isSystemAdmin THEN "FORBIDDEN"
  ELSE "RENDER"

Guard(snap) ==
  IF snap.loading THEN "SPINNER"
  ELSE IF snap.user = NoUser THEN "REDIRECT_LOGIN"
  ELSE IF ~snap.isSystemAdmin THEN "FORBIDDEN"
  ELSE "RENDER"

Snapshot == [user |-> user, loading |-> loading, isSystemAdmin |-> isSystemAdmin]

\* React renders the consumers of the context again after a handler segment
\* changed the state.
Rerender ==
  view' = Guard([user |-> user', loading |-> loading',
                 isSystemAdmin |-> isSystemAdmin'])

\* ------------------------------------------------- checkSystemAdminPermission
\* a truthiness test in place of === true
HasPermissionTruthy(body) == body \in {"true", "truthy"}

\* line 66: response?.is_system_admin === true
HasPermission(body) == body = "true"

\* a catch block that throws again
CheckOutcomeRethrows(cause, body) ==
  IF cause = "ok"
  THEN [threw |-> FALSE, value |-> body = "true"]
  ELSE [threw |-> cause # "no_token", value |-> FALSE]

\* The try/catch of checkSystemAdminPermission: the value of a response that
\* was read, false for every early return and for everything that was thrown.
CheckOutcome(cause, body) ==
  IF cause = "ok"
  THEN [threw |-> FALSE, value |-> HasPermission(body)]
  ELSE [threw |-> FALSE, value |-> FALSE]

\* What the awaiting handler does with the outcome: setIsSystemAdmin(result),
\* or its catch block (getInitialSession only logs, the event handler calls
\* setIsSystemAdmin(false)).
SettleAdmin(h, out) ==
  IF ~out.threw THEN out.value
  ELSE IF h = InitialHandler THEN isSystemAdmin
  ELSE FALSE

\* no finally block: loading stays as it is
LoadingKept(h) == loading

\* finally { setLoading(false) } at the end of handler h
LoadingAfter(h) == FALSE

\* a failed check that starts over with a new request
FailedPhaseRetry == "headers"

\* lines 74-79 and the handlers' catch blocks: a failed check is over, the
\* handler that awaited it ends
FailedPhase == "failed"

\* The handler h resumes after its check settled and runs to its end:
\* setIsSystemAdmin(...) and, in finally, setLoading(false).
Complete(h, cause, body) ==
  LET out == CheckOutcome(cause, body) IN
  /\ isSystemAdmin' = SettleAdmin(h, out)
  /\ loading' = LoadingAfter(h)
  /\ rejected' = (rejected \/ out.threw)
  /\ pc' = [pc EXCEPT ![h] = IF cause = "ok" THEN "done" ELSE FailedPhase]
  /\ chk' = [chk EXCEPT ![h] = NoCheck]

\* checkSystemAdminPermission(s.user.id, s) is called by handler h: without a
\* token it returns false at once, otherwise apiClient.get awaits
\* getAuthHeaders.
StartCheck(h, s) ==
  IF s.token = ""
  THEN Complete(h, "no_token", "absent")
  ELSE /\ pc' = [pc EXCEPT ![h] = "headers"]
       /\ chk' = [chk EXCEPT ![h] = [NoCheck EXCEPT !.uid = s.user]]
       /\ UNCHANGED <<isSystemAdmin, rejected>>

\* ------------------------------------------------- main app: RouteGuard
\* a guard without the test for a missing user
RouteGuardNoAuthTest(isLoading, u, requireAuth, redirectPath) ==
  IF isLoading THEN [kind |-> "SPINNER", to |-> ""]
  ELSE IF ~requireAuth /\ u # NoUser
  THEN [kind |-> "REDIRECT", to |-> redirectPath]
  ELSE [kind |-> "ELEMENT", to |-> ""]

\* RouteGuard.tsx lines 12-45
RouteGuard(isLoading, u, requireAuth, redirectPath) ==
  IF isLoading THEN [kind |-> "SPINNER", to |-> ""]
  ELSE IF requireAuth /\ u = NoUser
  THEN [kind |-> "REDIRECT", to |-> redirectPath]
  ELSE IF ~requireAuth /\ u # NoUser
  THEN [kind |-> "REDIRECT", to |-> redirectPath]
  ELSE [kind |-> "ELEMENT", to |-> ""]

\* what the current route's guard renders for the provider state m
GuardView(m) ==
  RouteGuard(m.loading, m.user, RouteOf(m.route).requireAuth,
             RouteOf(m.route).redirectPath)

\* React renders the route again after the provider state changed
MainRender(m) == [m EXCEPT !.view = GuardView(m)]

\* ----------------------------------------------- main app: AuthProvider
\* a permission check that grants
DefaultPermissionGranted == TRUE

\* lines 157-177: checkUserPermissions sets both flags to false
DefaultPermission == FALSE

\* lines 47-82: checkAdminPermission and checkTenantAdminPermission return
\* false for every user id
PermissionResult(fn, userId) == FALSE

\* lines 100-104: the state after construction, on the landing route
MainInit(s) ==
  MainRender([store |-> s, user |-> NoUser, session |-> NoSession,
              loading |-> TRUE, isSystemAdmin |-> FALSE, isAdmin |-> FALSE,
              isCheckingPermission |-> FALSE, initial |-> "getSession",
              awaiting |-> 0, nEvents |-> 0, route |-> "/",
              permissionCall |-> NoPermissionCall,
              view |-> [kind |-> "SPINNER", to |-> ""]])

\* setSession(session); setUser(session?.user ?? null) and, with a user,
\* the body of checkUserPermissions
MainSetSession(m, s) ==
  IF s.user # NoUser
  THEN [m EXCEPT !.session = s, !.user = s.user,
                 !.isSystemAdmin = DefaultPermission,
                 !.isAdmin = DefaultPermission]
  ELSE [m EXCEPT !.session = NoSession, !.user = NoUser]

\* lines 108-128: getInitialSession's getSession settles
MainInitialSessionResolved(outcome) ==
  /\ mainAuth.initial = "getSession"
  /\ outcome \in {"ok", "error", "throws"}
  /\ LET s == mainAuth.store
         m == MainSetSession(mainAuth, s)
     IN mainAuth' = MainRender(
          IF outcome = "ok" /\ s.user # NoUser
          THEN [m EXCEPT !.initial = "awaitCheck"]
          ELSE IF outcome = "ok"
          THEN [m EXCEPT !.initial = "done", !.loading = FALSE]
          ELSE [mainAuth EXCEPT !.initial = "done", !.loading = FALSE])
  /\ UNCHANGED <<system, members, api, asyncState, sorter, editor>>

\* lines 119-127: getInitialSession resumes after
\* await checkUserPermissions(...) and runs its finally block
MainInitialResumed ==
  /\ mainAuth.initial = "awaitCheck"
  /\ mainAuth' = MainRender([mainAuth EXCEPT !.initial = "done",
                                             !.loading = FALSE])
  /\ UNCHANGED <<system, members, api, asyncState, sorter, editor>>

\* lines 133-150: the store's session becomes s and the callback runs up to
\* its await (with a user) or to its end (without)
MainAuthStateChange(s) ==
  /\ mainAuth.nEvents < MaxMainEvents
  /\ s \in Sessions \cup {NoSession}
  /\ LET m == MainSetSession([mainAuth EXCEPT !.store = s,
                                              !.nEvents = @ + 1], s)
     IN mainAuth' = MainRender(
          IF s.user # NoUser
          THEN [m EXCEPT !.awaiting = @ + 1]
          ELSE [m EXCEPT !.isSystemAdmin = FALSE, !.isAdmin = FALSE,
                         !.loading = FALSE])
  /\ UNCHANGED <<system, members, api, asyncState, sorter, editor>>

\* lines 140-149: a callback resumes after await checkUserPermissions(...)
\* and calls setLoading(false)
MainHandlerResumed ==
  /\ mainAuth.awaiting > 0
  /\ mainAuth' = MainRender([mainAuth EXCEPT !.awaiting = @ - 1,
                                             !.loading = FALSE])
  /\ UNCHANGED <<system, members, api, asyncState, sorter, editor>>

\* lines 47-82: a consumer calls checkAdminPermission or
\* checkTenantAdminPermission; the body has no await, so
\* setIsCheckingPermission(true) and, in finally, (false) run in one task
MainPermissionChecked(fn, userId) ==
  /\ fn \in PermissionFns
  /\ userId \in Users
  /\ mainAuth' = [mainAuth EXCEPT
                    !.isCheckingPermission = FALSE,
                    !.permissionCall = [fn |-> fn, userId |-> userId,
                                        result |-> PermissionResult(fn, userId)]]
  /\ UNCHANGED <<system, members, api, asyncState, sorter, editor>>

\* the browser goes to another route
Navigate(path) ==
  /\ path \in Paths
  /\ path # mainAuth.route
  /\ mainAuth' = MainRender([mainAuth EXCEPT !.route = path])
  /\ UNCHANGED <<system, members, api, asyncState, sorter, editor>>

\* <Navigate to={redirectPath} replace /> takes the browser to the route
FollowRedirect ==
  /\ mainAuth.view.kind = "REDIRECT"
  /\ mainAuth' = MainRender([mainAuth EXCEPT !.route = mainAuth.view.to])
  /\ UNCHANGED <<system, members, api, asyncState, sorter, editor>>

NextMain ==
  \/ \E outcome \in {"ok", "error", "throws"} :
       MainInitialSessionResolved(outcome)
  \/ MainInitialResumed
  \/ \E s \in Sessions \cup {NoSession} : MainAuthStateChange(s)
  \/ MainHandlerResumed
  \/ \E fn \in PermissionFns, userId \in Users :
       MainPermissionChecked(fn, userId)
  \/ \E path \in Paths : Navigate(path)
  \/ FollowRedirect

\* --------------------------------------------------- AdminSystemMembers
\* part_002 lines 25-30 and 50-52: the state after the first render, with
\* fetchUsers() called by the effect
MembersInit(currentUser) ==
  [currentUser |-> currentUser, users |-> <<>>, loading |-> TRUE,
   error |-> "null", successMessage |-> "null", processingUserId |-> NoUser,
   fetching |-> TRUE, ops |-> {}, last |-> NoOp]

\* lines 33-47: systemApi.getUsers() settles
FetchUsersSettled(ok, list) ==
  /\ members.fetching
  /\ list \in UserLists
  /\ members' = IF ok
                THEN [members EXCEPT !.fetching = FALSE, !.users = list,
                                     !.loading = FALSE]
                ELSE [members EXCEPT !.fetching = FALSE,
                                     !.error = "fetch_failed",
                                     !.loading = FALSE]
  /\ UNCHANGED <<system, mainAuth, api, asyncState, sorter, editor>>

\* a map that sets the flag of every entry
SetAdminOfAll(users, userId, value) ==
  [i \in 1..Len(users) |-> [users[i] EXCEPT !.is_system_admin = value]]

\* lines 63-69 and 95-101: prevUsers.map(user => user.id === userId
\*   ? { ...user, is_system_admin: value } : user)
SetAdmin(users, userId, value) ==
  [i \in 1..Len(users) |->
     IF users[i].id = userId
     THEN [users[i] EXCEPT !.is_system_admin = value]
     ELSE users[i]]

\* no test for one's own id
IsSelfNever(m, userId) == FALSE

\* line 83: userId === currentUser?.id
IsSelf(m, userId) == userId = m.currentUser

\* lines 56-60 and 88-92: setProcessingUserId(userId); setError(null) and
\* the request to the backend
StartOp(m, o) ==
  [m EXCEPT !.processingUserId = o.userId, !.error = "null",
            !.ops = @ \cup {o},
            !.last = [kind |-> o.kind, userId |-> o.userId,
                      outcome |-> "started"]]

\* lines 55-60: grantAdminPermission(userId) is called
GrantAdminPermission(userId) ==
  /\ userId \in MemberIds
  /\ Cardinality(members.ops) < MaxOps
  /\ [kind |-> "grant", userId |-> userId] \notin members.ops
  /\ members' = StartOp(members, [kind |-> "grant", userId |-> userId])
  /\ UNCHANGED <<system, mainAuth, api, asyncState, sorter, editor>>

\* lines 81-92: revokeAdminPermission(userId) is called
RevokeAdminPermission(userId) ==
  /\ userId \in MemberIds
  /\ Cardinality(members.ops) < MaxOps
  /\ [kind |-> "revoke", userId |-> userId] \notin members.ops
  /\ members' = IF IsSelf(members, userId)
                THEN [members EXCEPT
                        !.error = "self_revoke",
                        !.last = [kind |-> "revoke", userId |-> userId,
                                  outcome |-> "refused"]]
                ELSE StartOp(members, [kind |-> "revoke", userId |-> userId])
  /\ UNCHANGED <<system, mainAuth, api, asyncState, sorter, editor>>

\* lines 60-77 and 92-109: the backend call of o settles and the operation
\* runs to its end
OpSettled(o, ok) ==
  /\ o \in members.ops
  /\ members' =
       IF ok
       THEN [members EXCEPT
               !.users = SetAdmin(@, o.userId, o.kind = "grant"),
               !.successMessage = o.kind,
               !.processingUserId = NoUser,
               !.ops = @ \ {o},
               !.last = [kind |-> o.kind, userId |-> o.userId,
                         outcome |-> "succeeded"]]
       ELSE [members EXCEPT
               !.error = IF o.kind = "grant" THEN "grant_failed"
                         ELSE "revoke_failed",
               !.processingUserId = NoUser,
               !.ops = @ \ {o},
               !.last = [kind |-> o.kind, userId |-> o.userId,
                         outcome |-> "failed"]]
  /\ UNCHANGED <<system, mainAuth, api, asyncState, sorter, editor>>

\* lines 113-115: handleCloseSuccessMessage
CloseSuccessMessage ==
  /\ members.successMessage # "null"
  /\ members' = [members EXCEPT !.successMessage = "null"]
  /\ UNCHANGED <<system, mainAuth, api, asyncState, sorter, editor>>

NextMembers ==
  \/ \E ok \in BOOLEAN, list \in UserLists : FetchUsersSettled(ok, list)
  \/ \E userId \in MemberIds : GrantAdminPermission(userId)
  \/ \E userId \in MemberIds : RevokeAdminPermission(userId)
  \/ \E o \in Ops, ok \in BOOLEAN : OpSettled(o, ok)
  \/ CloseSuccessMessage

\* ------------------------------------------- apiRequest of both clients
\* api.ts line 3
API_BASE_URL == "/api/v1"

\* api.ts line 13: 'Authorization': `Bearer ${session.access_token}`
Authorization(s) == "Bearer " \o s.token

\* headers built whatever the session
HasTokenAlways(s) == TRUE

\* api.ts line 8 and part_004 line 12: if (!session?.access_token) throw
HasToken(s) == s.token # ""

\* api.ts line 3; part_004 line 4 (the main client's base depends on the
\* build: DEV or not)
BaseUrl(client, dev) ==
  IF client = "system" THEN API_BASE_URL
  ELSE IF dev THEN "http://localhost:8000/api/v1"
  ELSE "/api/v1"

\* apiRequest(endpoint, { method }) is called and awaits getAuthHeaders()
ApiRequestCalled(client, dev, method, endpoint) ==
  /\ api.phase = "none"
  /\ client \in ApiClients
  /\ client = "system" => ~dev
  /\ method \in ApiMethods
  /\ endpoint \in ApiEndpoints
  /\ api' = [NoApiCall EXCEPT !.client = client, !.dev = dev,
                              !.method = method, !.endpoint = endpoint,
                              !.phase = "headers"]
  /\ UNCHANGED <<system, mainAuth, members, asyncState, sorter, editor>>

\* getAuthHeaders: getSession settles with s (or rejects); without an access
\* token it throws and apiRequest rejects before fetch, otherwise fetch is
\* called with the merged headers
ApiHeadersResolved(s, rejects) ==
  /\ api.phase = "headers"
  /\ s \in ApiSessions
  /\ api' = IF rejects
            THEN [api EXCEPT !.phase = "threw", !.outcome = "get_session"]
            ELSE IF ~HasToken(s)
            THEN [api EXCEPT !.phase = "threw", !.session = s,
                             !.outcome = "auth_required"]
            ELSE [api EXCEPT
                    !.phase = "fetch", !.session = s,
                    !.request = [method |-> api.method,
                                 url |-> BaseUrl(api.client, api.dev)
                                           \o api.endpoint,
                                 authorization |-> Authorization(s)]]
  /\ UNCHANGED <<system, mainAuth, members, asyncState, sorter, editor>>

\* fetch and the reading of the body settle; only the system client has the
\* abort timer
ApiFetchSettled(outcome) ==
  /\ api.phase = "fetch"
  /\ outcome \in ApiOutcomes
  /\ outcome = "timeout" => api.client = "system"
  /\ api' = [api EXCEPT !.phase = IF outcome = "ok" THEN "returned"
                                  ELSE "threw",
                        !.outcome = outcome]
  /\ UNCHANGED <<system, mainAuth, members, asyncState, sorter, editor>>

NextApi ==
  \/ \E client \in ApiClients, dev \in BOOLEAN, method \in ApiMethods,
        endpoint \in ApiEndpoints :
       ApiRequestCalled(client, dev, method, endpoint)
  \/ \E s \in ApiSessions, rejects \in BOOLEAN : ApiHeadersResolved(s, rejects)
  \/ \E outcome \in ApiOutcomes : ApiFetchSettled(outcome)

\* ---------------------------------------------------------- useAsyncState
\* part_007 lines 276-279: useState(null), useState(initialLoading),
\* useState(null)
AsyncInit(initialLoading) ==
  [initialLoading |-> initialLoading, data |-> "null",
   loading |-> initialLoading, error |-> "null", pending |-> 0,
   last |-> NoExecute]

\* line 288: err instanceof Error ? err.message : the default message
ErrorMessage(err) == IF err.isError THEN err.message ELSE DefaultErrorMessage

\* a catch block that throws a new Error made of the message
RethrownAsMessage(err) == [isError |-> TRUE, message |-> ErrorMessage(err)]

\* line 290: throw err
Rethrown(err) == err

\* lines 281-284: execute(asyncFn) is called: setLoading(true),
\* setError(null), then asyncFn() is called and awaited
Execute ==
  /\ asyncState.pending < MaxExecutes
  /\ asyncState' = [asyncState EXCEPT !.loading = TRUE, !.error = "null",
                                      !.pending = @ + 1, !.last = NoExecute]
  /\ UNCHANGED <<system, mainAuth, members, api, sorter, editor>>

\* lines 284-286 and 291-293: asyncFn resolved with result
ExecuteResolved(result) ==
  /\ asyncState.pending > 0
  /\ result \in AsyncValues
  /\ asyncState' = [asyncState EXCEPT
                      !.data = result, !.loading = FALSE, !.pending = @ - 1,
                      !.last = [NoExecute EXCEPT !.outcome = "resolved",
                                                 !.returned = result]]
  /\ UNCHANGED <<system, mainAuth, members, api, sorter, editor>>

\* lines 287-293: asyncFn rejected with err
ExecuteRejected(err) ==
  /\ asyncState.pending > 0
  /\ err \in AsyncErrors
  /\ asyncState' = [asyncState EXCEPT
                      !.error = ErrorMessage(err), !.loading = FALSE,
                      !.pending = @ - 1,
                      !.last = [NoExecute EXCEPT !.outcome = "rejected",
                                                 !.rejection = err,
                                                 !.thrown = Rethrown(err)]]
  /\ UNCHANGED <<system, mainAuth, members, api, sorter, editor>>

\* lines 296-300: reset()
AsyncReset ==
  /\ asyncState' = [asyncState EXCEPT
                      !.data = "null", !.loading = asyncState.initialLoading,
                      !.error = "null", !.last = NoExecute]
  /\ asyncState' # asyncState
  /\ UNCHANGED <<system, mainAuth, members, api, sorter, editor>>

\* lines 302-311: the setters the hook hands out
AsyncSetData(value) ==
  /\ value \in AsyncValues \cup {"null"}
  /\ value # asyncState.data
  /\ asyncState' = [asyncState EXCEPT !.data = value, !.last = NoExecute]
  /\ UNCHANGED <<system, mainAuth, members, api, sorter, editor>>

AsyncSetError(message) ==
  /\ message \in {"null", "m1"}
  /\ message # asyncState.error
  /\ asyncState' = [asyncState EXCEPT !.error = message, !.last = NoExecute]
  /\ UNCHANGED <<system, mainAuth, members, api, sorter, editor>>

AsyncSetLoading(value) ==
  /\ value \in BOOLEAN
  /\ value # asyncState.loading
  /\ asyncState' = [asyncState EXCEPT !.loading = value, !.last = NoExecute]
  /\ UNCHANGED <<system, mainAuth, members, api, sorter, editor>>

NextAsync ==
  \/ Execute
  \/ \E value \in AsyncValues \cup {"null"} : AsyncSetData(value)
  \/ \E message \in {"null", "m1"} : AsyncSetError(message)
  \/ \E value \in BOOLEAN : AsyncSetLoading(value)
  \/ \E result \in AsyncValues : ExecuteResolved(result)
  \/ \E err \in AsyncErrors : ExecuteRejected(err)
  \/ AsyncReset

\* --------------------------------------------------------- useBlockSorter
\* part_006 lines 11-14
SorterInit ==
  [modalOpen |-> FALSE, sortableBlocks |-> <<>>, loading |-> FALSE,
   draggedIndex |-> NoIndex, saving |-> FALSE, lastDrop |-> NoIndex]

\* Array.prototype.splice(start, 1) on a copy: removes the element at start
\* when there is one
SpliceOut(l, start) ==
  IF start < Len(l)
  THEN SubSeq(l, 1, start) \o SubSeq(l, start + 2, Len(l))
  ELSE l

\* Array.prototype.splice(start, 0, item): inserts item before position
\* start, at the end when start is past it
SpliceIn(l, start, item) ==
  LET k == Min(start, Len(l))
  IN SubSeq(l, 1, k) \o <<item>> \o SubSeq(l, k + 1, Len(l))

\* an exchange of the two positions
Swapped(l, from, to) ==
  [i \in 1..Len(l) |-> IF i = from + 1 THEN l[to + 1]
                        ELSE IF i = to + 1 THEN l[from + 1]
                        ELSE l[i]]

\* lines 60-65: take the dragged block out and put it in at dropIndex
Moved(l, from, to) == SpliceIn(SpliceOut(l, from), to, l[from + 1])

\* lines 17-20: openModal(blocks), from the page's button while the modal is
\* closed
OpenModal(blocks) ==
  /\ ~sorter.modalOpen
  /\ blocks \in BlockLists
  /\ sorter' = [sorter EXCEPT !.sortableBlocks = blocks, !.modalOpen = TRUE,
                              !.lastDrop = NoIndex]
  /\ UNCHANGED <<system, mainAuth, members, api, asyncState, editor>>

\* lines 23-27: closeModal()
CloseModal ==
  /\ sorter.modalOpen
  /\ sorter' = [sorter EXCEPT !.modalOpen = FALSE, !.sortableBlocks = <<>>,
                              !.draggedIndex = NoIndex, !.lastDrop = NoIndex]
  /\ UNCHANGED <<system, mainAuth, members, api, asyncState, editor>>

\* lines 30-32: handleDragStart(index), index being a row of the modal
HandleDragStart(index) ==
  /\ sorter.modalOpen
  /\ index \in 0..(Len(sorter.sortableBlocks) - 1)
  /\ sorter' = [sorter EXCEPT !.draggedIndex = index, !.lastDrop = NoIndex]
  /\ UNCHANGED <<system, mainAuth, members, api, asyncState, editor>>

\* lines 35-37: handleDragEnd()
HandleDragEnd ==
  /\ sorter.modalOpen
  /\ sorter.draggedIndex # NoIndex
  /\ sorter' = [sorter EXCEPT !.draggedIndex = NoIndex, !.lastDrop = NoIndex]
  /\ UNCHANGED <<system, mainAuth, members, api, asyncState, editor>>

\* lines 55-69: handleDrop(e, dropIndex), dropIndex being a row of the modal
HandleDrop(dropIndex) ==
  /\ sorter.modalOpen
  /\ dropIndex \in 0..(Len(sorter.sortableBlocks) - 1)
  /\ sorter' = IF sorter.draggedIndex = NoIndex
                  \/ sorter.draggedIndex = dropIndex
               THEN sorter
               ELSE [sorter EXCEPT
                       !.sortableBlocks = Moved(@, sorter.draggedIndex,
                                                dropIndex),
                       !.draggedIndex = NoIndex,
                       !.lastDrop = dropIndex]
  /\ sorter' # sorter
  /\ UNCHANGED <<system, mainAuth, members, api, asyncState, editor>>

\* lines 72-81: saveOrder() sends one update per block and awaits them all
SaveOrder ==
  /\ sorter.modalOpen
  /\ ~sorter.saving
  /\ sorter' = [sorter EXCEPT !.loading = TRUE, !.saving = TRUE,
                              !.lastDrop = NoIndex]
  /\ UNCHANGED <<system, mainAuth, members, api, asyncState, editor>>

\* lines 81-90: the updates settled: closeModal() when all succeeded, and
\* setLoading(false) in finally
SaveOrderSettled(ok) ==
  /\ sorter.saving
  /\ sorter' = IF ok
               THEN [sorter EXCEPT !.modalOpen = FALSE,
                                   !.sortableBlocks = <<>>,
                                   !.draggedIndex = NoIndex,
                                   !.loading = FALSE, !.saving = FALSE,
                                   !.lastDrop = NoIndex]
               ELSE [sorter EXCEPT !.loading = FALSE, !.saving = FALSE,
                                   !.lastDrop = NoIndex]
  /\ UNCHANGED <<system, mainAuth, members, api, asyncState, editor>>

NextSorter ==
  \/ \E blocks \in BlockLists : OpenModal(blocks)
  \/ CloseModal
  \/ \E index \in 0..(MaxBlocks - 1) : HandleDragStart(index)
  \/ HandleDragEnd
  \/ \E dropIndex \in 0..(MaxBlocks - 1) : HandleDrop(dropIndex)
  \/ SaveOrder
  \/ \E ok \in BOOLEAN : SaveOrderSettled(ok)

\* --------------------------------------------------------- useBlockEditor
\* part_007 lines 11-13; a missing entry of editStates reads as not editing
EditorInit ==
  [editStates |-> [b \in EditedBlocks |-> [f \in Fields |-> FALSE]],
   editValues |-> [b \in EditedBlocks |-> [f \in Fields |-> Undefined]],
   saveLoading |-> FALSE, updates |-> {}, last |-> NoEditEnd]

\* line 33: field === 'title' && !newValue.trim()
IsEmptyTitle(field, value) == field = "title" /\ value.blank

\* lines 42-48: the length checks inside the try block
TooLong(field, value) ==
  \/ field = "title" /\ value.len > TitleMaxLength
  \/ field = "content" /\ value.len > ContentMaxLength

\* a catch block that leaves the field closed
EditFlagAfterErrorClosed == FALSE

\* lines 65-68: the catch block puts the field back into editing
EditFlagAfterError == TRUE

\* lines 16-25: handleEditStart(blockId, field, value), on focus
HandleEditStart(blockId, field, value) ==
  /\ blockId \in EditedBlocks /\ field \in Fields
  /\ value \in TextsOf(field)
  /\ editor' = [editor EXCEPT !.editStates[blockId][field] = TRUE,
                              !.editValues[blockId][field] = value,
                              !.last = NoEditEnd]
  /\ UNCHANGED <<system, mainAuth, members, api, asyncState, sorter>>

\* lines 79-84: handleEditChange(blockId, field, value), typing into a field
\* that is being edited
HandleEditChange(blockId, field, value) ==
  /\ blockId \in EditedBlocks /\ field \in Fields
  /\ value \in TextsOf(field)
  /\ editor.editStates[blockId][field]
  /\ editor' = [editor EXCEPT !.editValues[blockId][field] = value,
                              !.last = NoEditEnd]
  /\ UNCHANGED <<system, mainAuth, members, api, asyncState, sorter>>

\* lines 28-62: handleEditEnd(blockId, field), on blur of a field that is
\* being edited, up to its return or its await
HandleEditEnd(blockId, field) ==
  /\ blockId \in EditedBlocks /\ field \in Fields
  /\ editor.editStates[blockId][field]
  /\ [blockId |-> blockId, field |-> field] \notin editor.updates
  /\ Cardinality(editor.updates) < MaxSaves
  /\ LET newValue == editor.editValues[blockId][field]
         ended(outcome, message) ==
           [blockId |-> blockId, field |-> field, outcome |-> outcome,
            onError |-> message]
     IN editor' =
          IF newValue = Undefined
          THEN [editor EXCEPT !.last = ended("no_value", "none")]
          ELSE IF IsEmptyTitle(field, newValue)
          THEN [editor EXCEPT !.last = ended("empty_title", "title_required")]
          ELSE IF TooLong(field, newValue)
          THEN [editor EXCEPT
                  !.editStates[blockId][field] = EditFlagAfterError,
                  !.saveLoading = FALSE,
                  !.last = ended("too_long", field)]
          ELSE [editor EXCEPT
                  !.saveLoading = TRUE,
                  !.editStates[blockId][field] = FALSE,
                  !.updates = @ \cup {[blockId |-> blockId, field |-> field]},
                  !.last = ended("sent", "none")]
  /\ UNCHANGED <<system, mainAuth, members, api, asyncState, sorter>>

\* lines 59-75: blockApi.updateBlock settles and the handler runs to its end
UpdateSettled(u, ok) ==
  /\ u \in editor.updates
  /\ editor' =
       IF ok
       THEN [editor EXCEPT
               !.saveLoading = FALSE, !.updates = @ \ {u},
               !.last = [blockId |-> u.blockId, field |-> u.field,
                         outcome |-> "saved", onError |-> "none"]]
       ELSE [editor EXCEPT
               !.editStates[u.blockId][u.field] = EditFlagAfterError,
               !.saveLoading = FALSE, !.updates = @ \ {u},
               !.last = [blockId |-> u.blockId, field |-> u.field,
                         outcome |-> "failed", onError |-> "save_failed"]]
  /\ UNCHANGED <<system, mainAuth, members, api, asyncState, sorter>>

NextEditor ==
  \/ \E b \in EditedBlocks, f \in Fields, v \in TitleTexts \cup ContentTexts :
       HandleEditStart(b, f, v)
  \/ \E b \in EditedBlocks, f \in Fields, v \in TitleTexts \cup ContentTexts :
       HandleEditChange(b, f, v)
  \/ \E b \in EditedBlocks, f \in Fields : HandleEditEnd(b, f)
  \/ \E u \in [blockId : EditedBlocks, field : Fields], ok \in BOOLEAN :
       UpdateSettled(u, ok)

\* ------------------------------------------------------------------ Init
\* the system-admin provider after construction, the store holding s
SystemInit(s) ==
  /\ store = s
  /\ user = NoUser
  /\ session = NoSession
  /\ loading = TRUE
  /\ isSystemAdmin = FALSE
  /\ pc = [h \in Handlers |-> IF h = InitialHandler THEN "getSession" ELSE "idle"]
  /\ chk = [h \in Handlers |-> NoCheck]
  /\ nInitial = 0
  /\ nEvents = 0
  /\ adminReported = FALSE
  /\ rejected = FALSE
  /\ view = Guard([user |-> NoUser, loading |-> TRUE, isSystemAdmin |-> FALSE])
  /\ mounted = TRUE
  /\ call = NoCall
  /\ signingOut = NoSignOut

Init ==
  /\ \E s \in Sessions \cup {NoSession} : SystemInit(s)
  /\ mainAuth = MainInit(NoSession)
  /\ members = MembersInit("A")
  /\ api = NoApiCall
  /\ asyncState = AsyncInit(FALSE)
  /\ sorter = SorterInit
  /\ editor = EditorInit

\* the main app starts with or without a session in its store
InitMain ==
  /\ SystemInit(NoSession)
  /\ mainAuth \in {MainInit(s) : s \in Sessions \cup {NoSession}}
  /\ members = MembersInit("A")
  /\ api = NoApiCall
  /\ asyncState = AsyncInit(FALSE)
  /\ sorter = SorterInit
  /\ editor = EditorInit

\* ------------------------------------------------------ getInitialSession
\* await supabase.auth.getSession() settles: with the store's session, with
\* no session (an error result), or by throwing.
InitialSessionResolved(s, throws) ==
  /\ pc[InitialHandler] = "getSession"
  /\ s \in {store, NoSession}
  /\ IF ~throws /\ s.user # NoUser
     THEN /\ user' = s.user
          /\ session' = s
          /\ StartCheck(InitialHandler, s)
          /\ IF s.token = "" THEN TRUE ELSE UNCHANGED loading
     ELSE /\ loading' = LoadingAfter(InitialHandler)
          /\ pc' = [pc EXCEPT ![InitialHandler] =
                                  IF throws THEN "threw" ELSE "noUser"]
          /\ UNCHANGED <<user, session, isSystemAdmin, chk, rejected>>
  /\ UNCHANGED <<mounted, call, signingOut, pages, store, nInitial, nEvents, adminReported>>
  /\ Rerender

\* ------------------------------------------------ onAuthStateChange callback
\* no skip of the replayed event
IsSkippedNever(event) == FALSE

\* line 144: the INITIAL_SESSION replay is skipped
IsSkipped(event) == event = "INITIAL_SESSION"

\* the sign-out branch without its setIsSystemAdmin(false)
SignedOutAdminKept == isSystemAdmin

\* line 166: setIsSystemAdmin(false) in the branch without a user
SignedOutAdmin == FALSE

\* lines 140 and 182-185: the callback is subscribed from the effect until
\* its cleanup calls subscription.unsubscribe()
Subscribed == mounted

\* The Session Store notifies the subscriber of its session s; the callback
\* runs up to its first await (or to its end when there is no user).
AuthStateChange(event, s) ==
  /\ Subscribed
  /\ event \in EventTags
  /\ CASE event = "INITIAL_SESSION" -> s = store
       [] event = "SIGNED_OUT" -> s = NoSession
       [] OTHER -> s \in Sessions
  /\ event = "INITIAL_SESSION" => nInitial < MaxInitialEvents
  /\ store' = s
  /\ nInitial' = IF event = "INITIAL_SESSION" THEN nInitial + 1 ELSE nInitial
  /\ IF IsSkipped(event)
     THEN UNCHANGED <<auth, pc, chk, nEvents, rejected>>
     ELSE LET h == nEvents + 1 IN
          /\ nEvents < MaxEvents
          /\ nEvents' = h
          /\ IF s.user # NoUser
             THEN /\ user' = s.user
                  /\ session' = s
                  /\ StartCheck(h, s)
                  /\ IF s.token = "" THEN TRUE ELSE loading' = TRUE
             ELSE /\ user' = NoUser
                  /\ session' = NoSession
                  /\ isSystemAdmin' = SignedOutAdmin
                  /\ loading' = LoadingAfter(h)
                  /\ pc' = [pc EXCEPT ![h] = "cleared"]
                  /\ UNCHANGED <<chk, rejected>>
  /\ UNCHANGED <<adminReported, mounted, call, signingOut, pages>>
  /\ Rerender

\* ---------------------------------------------------------------- cleanup
\* The provider unmounts: the effect's cleanup unsubscribes the callback.
\* Handlers that are awaiting something are left as they are.
Unmount ==
  /\ mounted
  /\ mounted' = FALSE
  /\ UNCHANGED <<store, auth, pc, chk, nInitial, nEvents, adminReported,
                 rejected, view, call, signingOut, pages>>

\* ---------------------------------------------------------------- signOut
\* a signOut that clears the state whatever the provider answered
SignOutClearsAlways(result) == TRUE

\* lines 192-199: the state is cleared in the else branch of if (error); a
\* throw goes to the catch block, which only logs
SignOutClears(result) == result = "ok"

\* line 192: signOut() is called and awaits supabase.auth.signOut()
SignOutCalled ==
  /\ signingOut.phase = "idle"
  /\ signingOut' = [signingOut EXCEPT !.phase = "pending"]
  /\ UNCHANGED <<store, auth, pc, chk, nInitial, nEvents, adminReported,
                 rejected, view, mounted, call, pages>>

\* lines 192-203: supabase.auth.signOut() settles.  When it succeeded the
\* store has dropped its session (its SIGNED_OUT event is delivered apart).
SignOutResolved(result) ==
  /\ signingOut.phase = "pending"
  /\ result \in SignOutResults
  /\ signingOut' = [phase |-> "returned", result |-> result,
                    rejected |-> FALSE]
  /\ store' = IF result = "ok" THEN NoSession ELSE store
  /\ IF SignOutClears(result)
     THEN /\ user' = NoUser
          /\ session' = NoSession
          /\ isSystemAdmin' = FALSE
          /\ UNCHANGED loading
     ELSE UNCHANGED auth
  /\ UNCHANGED <<pc, chk, nInitial, nEvents, adminReported, rejected,
                 mounted, call, pages>>
  /\ Rerender

\* ------------------------------------------------------------- apiRequest
\* getAuthHeaders: await supabase.auth.getSession() settles; without an access
\* token (or when it rejects) it throws before fetch is called.
AuthHeadersResolved(h, rejects) ==
  /\ pc[h] = "headers"
  /\ IF rejects \/ store.token = ""
     THEN Complete(h, "auth_headers", "absent")
     ELSE /\ pc' = [pc EXCEPT ![h] = "fetch"]
          /\ UNCHANGED <<isSystemAdmin, loading, chk, rejected>>
  /\ UNCHANGED <<mounted, call, signingOut, pages, store, user, session, nInitial, nEvents, adminReported>>
  /\ Rerender

\* fetch resolves with a response before the abort timer fires; the timer is
\* cleared and the body is read next.
FetchResolved(h, ok) ==
  /\ pc[h] = "fetch"
  /\ chk[h].fetchAge < ApiTimeoutMs
  /\ pc' = [pc EXCEPT ![h] = "body"]
  /\ chk' = [chk EXCEPT ![h].ok = ok, ![h].fetchAge = 0]
  /\ UNCHANGED <<mounted, call, signingOut, pages, store, auth, nInitial, nEvents, adminReported,
                 rejected, view>>

\* fetch rejects with a network error
FetchFailed(h) ==
  /\ pc[h] = "fetch"
  /\ chk[h].fetchAge < ApiTimeoutMs
  /\ Complete(h, "network", "absent")
  /\ UNCHANGED <<mounted, call, signingOut, pages, store, user, session, nInitial, nEvents, adminReported>>
  /\ Rerender

\* no response within ApiTimeoutMs: the abort timer fires and fetch rejects
\* with AbortError
FetchTimesOut(h) ==
  /\ pc[h] = "fetch"
  /\ Complete(h, "timeout", "absent")
  /\ UNCHANGED <<mounted, call, signingOut, pages, store, user, session, nInitial, nEvents, adminReported>>
  /\ Rerender

\* a response read whatever its status
ReadCauseAnyStatus(ok, body) ==
  IF body = "malformed" THEN "malformed" ELSE "ok"

\* api.ts lines 46-54: a response that is not ok makes apiRequest throw, and
\* so does a body of a 2xx response that is not JSON
ReadCause(ok, body) ==
  IF ~ok THEN "http_error"
  ELSE IF body = "malformed" THEN "malformed"
  ELSE "ok"

\* response.json() settles
BodyResolved(h, body) ==
  /\ pc[h] = "body"
  /\ body \in Bodies
  /\ Complete(h, ReadCause(chk[h].ok, body), body)
  /\ adminReported' = (adminReported \/ (chk[h].ok /\ body = "true"))
  /\ UNCHANGED <<mounted, call, signingOut, pages, store, user, session, nInitial, nEvents>>
  /\ Rerender

\* ----------------------------------- checkSystemAdminPermission, called alone
\* AuthContext.tsx line 65: the endpoint handed to apiClient.get
Endpoint(userId) == "/api/v1/admin/system/users/" \o userId \o "/permissions"

\* api.ts line 32: fetch(`${API_BASE_URL}${endpoint}`, ...)
RequestUrl(endpoint) == API_BASE_URL \o endpoint

\* a session fetch on every call
NeedsSessionAlways(existingSession) == TRUE

\* line 38: if (!currentSession)
NeedsSession(existingSession) == existingSession = NoSession

\* the call returns: the value of CheckOutcome, nothing thrown
CallReturns(c, cause, body) ==
  LET out == CheckOutcome(cause, body) IN
  [c EXCEPT !.phase = "returned", !.threw = out.threw, !.result = out.value]

\* lines 59-65: without an access token return false, otherwise
\* apiClient.get(...), whose getAuthHeaders calls supabase.auth.getSession()
CallWithSession(c) ==
  IF c.currentSession.token = ""
  THEN CallReturns(c, "no_token", "absent")
  ELSE [c EXCEPT !.phase = "headers", !.getSessionCalls = @ + 1]

\* lines 31-47: checkSystemAdminPermission(userId, existingSession) is called
CallCheck(userId, existingSession) ==
  /\ call.phase = "none"
  /\ userId \in Users
  /\ existingSession \in SuppliedSessions
  /\ LET c == [call EXCEPT !.userId = userId,
                           !.supplied = existingSession # NoSession,
                           !.currentSession = existingSession]
     IN call' = IF NeedsSession(existingSession)
                THEN [c EXCEPT !.phase = "getSession",
                               !.fetchedSession = TRUE,
                               !.getSessionCalls = @ + 1]
                ELSE CallWithSession(c)
  /\ UNCHANGED <<store, auth, pc, chk, nInitial, nEvents, adminReported,
                 rejected, view, mounted, signingOut, pages>>

\* lines 40-47: the function's own getSession settles, with an error (return
\* false), by throwing (caught, return false) or with the store's session
CallSessionResolved(error, throws) ==
  /\ call.phase = "getSession"
  /\ call' = IF throws THEN CallReturns(call, "get_session", "absent")
             ELSE IF error THEN CallReturns(call, "session_error", "absent")
             ELSE CallWithSession([call EXCEPT !.currentSession = store])
  /\ UNCHANGED <<store, auth, pc, chk, nInitial, nEvents, adminReported,
                 rejected, view, mounted, signingOut, pages>>

\* api.ts lines 6-39: getAuthHeaders' getSession settles; with the store's
\* token the request goes out, without one apiRequest throws
CallHeadersResolved(rejects) ==
  /\ call.phase = "headers"
  /\ call' = IF rejects \/ store.token = ""
             THEN CallReturns(call, "auth_headers", "absent")
             ELSE [call EXCEPT
                     !.phase = "fetch",
                     !.request = [method |-> "GET",
                                  url |-> RequestUrl(Endpoint(call.userId)),
                                  authorization |-> Authorization(store)]]
  /\ UNCHANGED <<store, auth, pc, chk, nInitial, nEvents, adminReported,
                 rejected, view, mounted, signingOut, pages>>

\* fetch resolves with a response
CallFetchResolved(ok) ==
  /\ call.phase = "fetch"
  /\ call' = [call EXCEPT !.phase = "body", !.response.ok = ok]
  /\ UNCHANGED <<store, auth, pc, chk, nInitial, nEvents, adminReported,
                 rejected, view, mounted, signingOut, pages>>

\* fetch rejects: a network error, or the abort after ApiTimeoutMs
CallFetchRejected(cause) ==
  /\ call.phase = "fetch"
  /\ cause \in {"network", "timeout"}
  /\ call' = CallReturns(call, cause, "absent")
  /\ UNCHANGED <<store, auth, pc, chk, nInitial, nEvents, adminReported,
                 rejected, view, mounted, signingOut, pages>>

\* response.json() settles
CallBodyResolved(body) ==
  /\ call.phase = "body"
  /\ body \in Bodies
  /\ call' = CallReturns([call EXCEPT !.response.body = body],
                         ReadCause(call.response.ok, body), body)
  /\ UNCHANGED <<store, auth, pc, chk, nInitial, nEvents, adminReported,
                 rejected, view, mounted, signingOut, pages>>

NextCall ==
  \/ \E userId \in Users, s \in SuppliedSessions : CallCheck(userId, s)
  \/ \E error \in BOOLEAN, throws \in BOOLEAN :
       CallSessionResolved(error, throws)
  \/ \E rejects \in BOOLEAN : CallHeadersResolved(rejects)
  \/ \E ok \in BOOLEAN : CallFetchResolved(ok)
  \/ \E cause \in {"network", "timeout"} : CallFetchRejected(cause)
  \/ \E body \in Bodies : CallBodyResolved(body)

\* SpecCall applies checkSystemAdminPermission to every input.
SpecCall == Init /\ [][NextCall]_vars

\* ------------------------------------------------------------ the provider
Next ==
  \/ \E s \in Sessions \cup {NoSession}, throws \in BOOLEAN :
       InitialSessionResolved(s, throws)
  \/ \E event \in EventTags, s \in Sessions \cup {NoSession} :
       AuthStateChange(event, s)
  \/ \E h \in Handlers, rejects \in BOOLEAN : AuthHeadersResolved(h, rejects)
  \/ \E h \in Handlers, ok \in BOOLEAN : FetchResolved(h, ok)
  \/ \E h \in Handlers : FetchFailed(h)
  \/ \E h \in Handlers : FetchTimesOut(h)
  \/ \E h \in Handlers, body \in Bodies : BodyResolved(h, body)

\* Spec leaves the clock out: a pending fetch may time out at any moment.
Spec == Init /\ [][Next]_vars

\* ------------------------------------------------------------------- time
\* the abort timer fires when ApiTimeoutMs have passed since fetch was called
FetchAborted(h) ==
  /\ chk[h].fetchAge >= ApiTimeoutMs
  /\ FetchTimesOut(h)

\* TickMs pass.  A due abort timer fires before more time passes.
Tick ==
  /\ \A h \in Handlers : pc[h] = "fetch" => chk[h].fetchAge < ApiTimeoutMs
  /\ \E h \in Handlers : pc[h] \in Outstanding /\ chk[h].age < MaxAgeMs
  /\ chk' = [h \in Handlers |->
               IF pc[h] \in Outstanding
               THEN [chk[h] EXCEPT
                       !.age = Min(@ + TickMs, MaxAgeMs),
                       !.fetchAge = IF pc[h] = "fetch" THEN @ + TickMs ELSE @]
               ELSE chk[h]]
  /\ UNCHANGED <<mounted, call, signingOut, pages, store, auth, pc, nInitial, nEvents, adminReported,
                 rejected, view>>

NextTimed ==
  \/ \E s \in Sessions \cup {NoSession}, throws \in BOOLEAN :
       InitialSessionResolved(s, throws)
  \/ \E event \in EventTags, s \in Sessions \cup {NoSession} :
       AuthStateChange(event, s)
  \/ \E h \in Handlers, rejects \in BOOLEAN : AuthHeadersResolved(h, rejects)
  \/ \E h \in Handlers, ok \in BOOLEAN : FetchResolved(h, ok)
  \/ \E h \in Handlers : FetchFailed(h)
  \/ \E h \in Handlers : FetchAborted(h)
  \/ \E h \in Handlers, body \in Bodies : BodyResolved(h, body)
  \/ Tick

\* SpecTimed runs the same handlers against the clock.
SpecTimed == Init /\ [][NextTimed]_vars

\* The environment is fair to the handlers: every awaited promise settles.
HandlerStep ==
  \/ \E s \in Sessions \cup {NoSession}, throws \in BOOLEAN :
       InitialSessionResolved(s, throws)
  \/ \E h \in Handlers, rejects \in BOOLEAN : AuthHeadersResolved(h, rejects)
  \/ \E h \in Handlers, ok \in BOOLEAN : FetchResolved(h, ok)
  \/ \E h \in Handlers : FetchFailed(h)
  \/ \E h \in Handlers : FetchTimesOut(h)
  \/ \E h \in Handlers, body \in Bodies : BodyResolved(h, body)

SpecFair == Spec /\ WF_vars(HandlerStep)

NextUnmount ==
  \/ Next
  \/ Unmount

\* SpecUnmount lets the provider unmount at any moment.
SpecUnmount == Init /\ [][NextUnmount]_vars

NextSignOut ==
  \/ Next
  \/ SignOutCalled
  \/ \E result \in SignOutResults : SignOutResolved(result)

\* SpecSignOut lets a consumer call signOut once, at any moment.
SpecSignOut == Init /\ [][NextSignOut]_vars

\* the Members page is shown to either user
InitMembers ==
  /\ SystemInit(NoSession)
  /\ mainAuth = MainInit(NoSession)
  /\ members \in {MembersInit(u) : u \in MemberIds}
  /\ api = NoApiCall
  /\ asyncState = AsyncInit(FALSE)
  /\ sorter = SorterInit
  /\ editor = EditorInit

\* SpecMembers runs the operations of the Members page.
SpecMembers == InitMembers /\ [][NextMembers]_vars

\* SpecApi applies apiRequest of either client to every call and session.
SpecApi == Init /\ [][NextApi]_vars

\* the hook is created with initialLoading true (Account's dataState) or
\* false (its saveState)
InitAsync ==
  /\ SystemInit(NoSession)
  /\ mainAuth = MainInit(NoSession)
  /\ members = MembersInit("A")
  /\ api = NoApiCall
  /\ asyncState \in {AsyncInit(b) : b \in BOOLEAN}
  /\ sorter = SorterInit
  /\ editor = EditorInit

\* SpecAsync runs execute and reset of a useAsyncState hook.
SpecAsync == InitAsync /\ [][NextAsync]_vars

\* SpecSorter runs the operations of a useBlockSorter hook.
SpecSorter == Init /\ [][NextSorter]_vars

\* SpecEditor runs the operations of a useBlockEditor hook.
SpecEditor == Init /\ [][NextEditor]_vars

\* SpecMain runs the main app's AuthProvider under its route guards.
SpecMain == InitMain /\ [][NextMain]_vars

\* ------------------------------------------------------------------ claims
EventHandlers == Handlers \ {InitialHandler}

\* handler h's permission check settles in this step
Settles(h) == pc[h] \in Outstanding /\ pc'[h] \in Settled

\* handler h's permission check settles in this step through an error path:
\* getAuthHeaders threw, fetch rejected or was aborted, or the status was
\* not 2xx
SettlesByError(h) ==
  /\ Settles(h)
  /\ pc[h] \in {"headers", "fetch"} \/ (pc[h] = "body" /\ ~chk[h].ok)

\* C1: when a sign-out event is handled while a permission check is
\* outstanding, the snapshot is {user: null, isSystemAdmin: false, loading:
\* false} as the handler ends, and the later settling of a check that was
\* outstanding then changes none of isSystemAdmin, user and session.
C1_StaleCheckDoesNotOverwriteSignOut ==
  [][\A h \in Handlers :
       /\ (pc[h] \in Outstanding /\ \E k \in EventHandlers :
             pc[k] = "idle" /\ pc'[k] = "cleared")
          => (user' = NoUser /\ ~isSystemAdmin' /\ ~loading')
       /\ (Settles(h) /\ \E k \in EventHandlers : k > h /\ pc[k] = "cleared")
          => (isSystemAdmin' = isSystemAdmin /\ user' = user
              /\ session' = session)]_vars

\* C2: loading is true whenever some permission check has been started and
\* has not settled.
C2_LoadingWhileCheckOutstanding ==
  (\E h \in Handlers : pc[h] \in Outstanding) => loading

\* C3: isSystemAdmin is true only if some permission check read a 2xx
\* response whose is_system_admin was the boolean true (it is false at mount,
\* and no error path, sign-out or skipped event sets it).
C3_AdminOnlyAfterBackendTrue ==
  /\ [](isSystemAdmin => adminReported)
  /\ [][(~isSystemAdmin /\ isSystemAdmin')
         => \E h \in Handlers :
              pc[h] = "body" /\ chk[h].ok /\ pc'[h] = "done"]_vars

C3_Witness == isSystemAdmin /\ adminReported /\ ~loading /\ user # NoUser

\* C4 as stated: loading is false once the handler of the last delivered
\* session-change event has ended, be that event an INITIAL_SESSION (its
\* handler ends in the step that delivers it) or another one.
C4_LoadingFalseAfterLastEvent ==
  /\ []((nEvents >= 1 /\ pc[nEvents] \in Ended) => ~loading)
  /\ [][nInitial' # nInitial => ~loading']_vars

\* C4 amended: loading is false once the handler of the last session-change
\* event other than INITIAL_SESSION has ended, and under fairness loading
\* ends up false for good.
C4_LoadingFalseAfterLastHandledEvent ==
  /\ []((nEvents >= 1 /\ pc[nEvents] \in Ended) => ~loading)
  /\ <>[](~loading)

C4_Witness ==
  /\ nEvents = MaxEvents
  /\ pc[nEvents] \in Settled
  /\ \E h \in Handlers : pc[h] \in Outstanding
  /\ ~loading

\* C5: an INITIAL_SESSION event starts no permission check and leaves user,
\* session, loading and isSystemAdmin unchanged, so the checks started are
\* the one of the initial fetch and one per other event that carried a user.
C5_InitialSessionEventIgnored ==
  [][nInitial' # nInitial => UNCHANGED <<auth, pc, chk, nEvents>>]_vars

C5_Witness ==
  /\ nInitial = MaxInitialEvents
  /\ pc[InitialHandler] \in Outstanding
  /\ \A h \in EventHandlers : pc[h] = "idle"

\* C6: no permission check is still waiting for the endpoint more than the
\* 15 seconds after it started.
C6_SettledWithinCheckTimeout ==
  \A h \in Handlers : pc[h] = "fetch" => chk[h].age <= CheckTimeoutMs

\* C7: a permission check that settles after the 15-second timer would have
\* fired has the result false.
C7_LateResultDiscarded ==
  [][\A h \in Handlers :
       (Settles(h) /\ chk[h].age > CheckTimeoutMs) => ~isSystemAdmin']_vars

\* C8: checkSystemAdminPermission never rejects, and when it settles through
\* an error the handler that awaited it leaves isSystemAdmin and loading
\* false.
C8_ErrorsResolveFalse ==
  [][/\ ~rejected'
     /\ \A h \in Handlers :
          SettlesByError(h) => (~isSystemAdmin' /\ ~loading')]_vars

C8_Witness ==
  /\ \E h \in Handlers : pc[h] = "failed"
  /\ ~isSystemAdmin
  /\ ~loading
  /\ ~rejected

\* the decision table of the route guard
GuardTable(snap) ==
  CASE snap.loading -> "SPINNER"
    [] ~snap.loading /\ snap.user = NoUser -> "REDIRECT_LOGIN"
    [] ~snap.loading /\ snap.user # NoUser /\ ~snap.isSystemAdmin -> "FORBIDDEN"
    [] ~snap.loading /\ snap.user # NoUser /\ snap.isSystemAdmin -> "RENDER"

\* C9: ProtectedRoute follows the decision table for every combination of
\* loading, user and isSystemAdmin, and what it has rendered is the table's
\* entry for the current snapshot.
C9_GuardDecisionTable ==
  /\ \A snap \in [user : Users \cup {NoUser}, loading : BOOLEAN,
                   isSystemAdmin : BOOLEAN] : Guard(snap) = GuardTable(snap)
  /\ view = GuardTable(Snapshot)

C9_Witness == ~loading /\ user # NoUser /\ isSystemAdmin /\ view = "RENDER"

\* C10: the handler of an event with a user sets loading and user/session
\* before its check starts; when the endpoint answers true the snapshot is
\* {user: that user, loading: false, isSystemAdmin: true} as the handler
\* ends, and {loading: false, isSystemAdmin: false} when the flag is false.
C10_SignInSettles ==
  [][\A h \in EventHandlers :
       /\ (pc[h] = "idle" /\ pc'[h] = "headers")
          => (loading' /\ user' = chk'[h].uid /\ session'.user = user')
       /\ (pc[h] = "body" /\ pc'[h] = "done")
          => /\ ~loading'
             /\ isSystemAdmin' => user' = chk[h].uid]_vars

\* C11: the handler of an event without a user (other than INITIAL_SESSION)
\* ends in the step that delivers the event: it starts no permission check,
\* leaves every other handler and its check where they are, and leaves
\* user = null, session = null, isSystemAdmin = false and loading = false.
C11_SignOutClearsAtOnce ==
  [][\A k \in EventHandlers :
       (pc[k] = "idle" /\ pc'[k] = "cleared")
       => /\ user' = NoUser /\ session' = NoSession
          /\ ~isSystemAdmin' /\ ~loading'
          /\ chk' = chk
          /\ \A h \in Handlers \ {k} : pc'[h] = pc[h]]_vars

C11_Witness ==
  /\ \E k \in EventHandlers : pc[k] = "cleared"
  /\ \E h \in Handlers : pc[h] \in Outstanding
  /\ user = NoUser /\ session = NoSession /\ ~isSystemAdmin /\ ~loading

\* C12: when the initial session fetch resolves without a user, the snapshot
\* after it is user = null, session = null, isSystemAdmin = false and
\* loading = false, whatever events were handled before.
C12_InitialNoUserClears ==
  [][(pc[InitialHandler] = "getSession" /\ pc'[InitialHandler] = "noUser")
     => /\ user' = NoUser /\ session' = NoSession
        /\ ~isSystemAdmin' /\ ~loading']_vars

\* C13: an exception inside an entry point is caught there, and after it
\* isSystemAdmin = false and loading = false.
C13_ExceptionForcesFalse ==
  /\ [][(pc[InitialHandler] = "getSession" /\ pc'[InitialHandler] = "threw")
        => ~isSystemAdmin' /\ ~loading']_vars
  /\ [][\A h \in EventHandlers :
          (Settles(h) /\ rejected' /\ ~rejected)
          => ~isSystemAdmin' /\ ~loading']_vars

C15_SessionFetchedOnlyWhenMissing ==
  /\ call.phase # "none" => (call.fetchedSession <=> ~call.supplied)
  /\ (call.phase \notin {"none", "getSession"}
       /\ call.currentSession.token = "")
     => /\ call.phase = "returned"
        /\ ~call.result /\ ~call.threw
        /\ call.request = NoRequest

C15_Witness ==
  /\ call.phase = "returned"
  /\ call.fetchedSession /\ store = NoSession
  /\ call.currentSession = NoSession
  /\ ~call.result /\ call.request = NoRequest

\* C16: checkSystemAdminPermission returns true exactly when the endpoint
\* answered 2xx with is_system_admin being the boolean true; it never throws.
C16_TrueIffBackendTrue ==
  call.phase = "returned"
  => /\ call.result <=> (call.response.ok /\ call.response.body = "true")
     /\ ~call.threw

C16_Witness ==
  /\ call.phase = "returned" /\ call.result
  /\ call.response = [ok |-> TRUE, body |-> "true"]

\* C17: the request of a check for user id u is a GET of
\* /api/v1/admin/system/users/u/permissions with the header
\* Authorization: Bearer <access token of the check's session>.
C17_RequestAsDocumented ==
  call.request # NoRequest
  => /\ call.request.method = "GET"
     /\ call.request.url
          = "/api/v1/admin/system/users/" \o call.userId \o "/permissions"
     /\ call.request.authorization = "Bearer " \o call.currentSession.token

\* C18: a handler sends a request only out of the getAuthHeaders step of its
\* one check, a check starts only at mount or with a new event, and a handler
\* that ended stays ended: at most one request per handler, none after a
\* failure.
C18_NoRetry ==
  [][\A h \in Handlers :
       /\ (pc'[h] = "fetch" /\ pc[h] # "fetch") => pc[h] = "headers"
       /\ (pc'[h] = "headers" /\ pc[h] # "headers")
          => pc[h] \in {"idle", "getSession"}
       /\ pc[h] \in Ended => pc'[h] = pc[h]]_vars

C18_Witness ==
  /\ \E h \in Handlers : pc[h] = "failed"
  /\ \A k \in Handlers : pc[k] \notin Outstanding
  /\ user # NoUser /\ ~isSystemAdmin /\ ~loading

\* C19: a check that was given a session calls the store's getSession never,
\* and sends the access token of the session it was given.
C19_SuppliedSessionIsUsed ==
  call.supplied
  => /\ call.getSessionCalls = 0
     /\ call.request # NoRequest
        => call.request.authorization = "Bearer " \o call.currentSession.token

\* C20: a check that makes isSystemAdmin true for a user with loading = false
\* is the check that was made for that user's id.
C20_AdminIsOfCurrentUser ==
  [][\A h \in Handlers :
       (Settles(h) /\ isSystemAdmin' /\ ~loading' /\ user' # NoUser)
       => chk[h].uid = user']_vars

\* C21: signOut never throws; when the provider's sign-out succeeded it
\* leaves user = null, session = null and isSystemAdmin = false, and when the
\* provider answered with an error or threw it changes none of user,
\* session, loading and isSystemAdmin.
C21_SignOutClearsOnlyOnSuccess ==
  [][(signingOut.phase = "pending" /\ signingOut'.phase = "returned")
     => /\ ~signingOut'.rejected
        /\ IF signingOut'.result = "ok"
           THEN user' = NoUser /\ session' = NoSession /\ ~isSystemAdmin'
           ELSE UNCHANGED auth]_vars

C21_Witness ==
  /\ signingOut.phase = "returned" /\ signingOut.result = "error"
  /\ user # NoUser /\ isSystemAdmin /\ ~loading

\* C22: RouteGuard shows the spinner while loading, whatever the other
\* inputs; otherwise it redirects to redirectPath when requireAuth and no
\* user, or when not requireAuth and a user; otherwise it renders the
\* element.  The element of a requireAuth route is never rendered while user
\* is null.
C22_RouteGuardDecisionTable ==
  /\ \A isLoading \in BOOLEAN, u \in Users \cup {NoUser},
        requireAuth \in BOOLEAN, redirectPath \in Paths :
       RouteGuard(isLoading, u, requireAuth, redirectPath)
         = IF isLoading THEN [kind |-> "SPINNER", to |-> ""]
           ELSE IF requireAuth = (u = NoUser)
           THEN [kind |-> "REDIRECT", to |-> redirectPath]
           ELSE [kind |-> "ELEMENT", to |-> ""]
  /\ mainAuth.view = GuardView(mainAuth)
  /\ (mainAuth.view.kind = "ELEMENT" /\ RouteOf(mainAuth.route).requireAuth)
     => mainAuth.user # NoUser

C22_Witness ==
  /\ mainAuth.view = [kind |-> "REDIRECT", to |-> "/"]
  /\ mainAuth.route = "/account"
  /\ ~mainAuth.loading /\ mainAuth.user = NoUser /\ mainAuth.nEvents > 0

\* C23: in the main app's AuthProvider isSystemAdmin and isAdmin are false in
\* every reachable state, and checkAdminPermission and
\* checkTenantAdminPermission return false with isCheckingPermission false
\* afterwards.
C23_MainAppNeverAdmin ==
  /\ ~mainAuth.isSystemAdmin /\ ~mainAuth.isAdmin
  /\ ~mainAuth.permissionCall.result
  /\ ~mainAuth.isCheckingPermission

C23_Witness ==
  /\ mainAuth.user # NoUser /\ ~mainAuth.loading
  /\ mainAuth.initial = "done" /\ mainAuth.nEvents > 0
  /\ mainAuth.permissionCall.fn = "checkTenantAdminPermission"
  /\ mainAuth.permissionCall.userId = mainAuth.user

\* C24: revokeAdminPermission with the current user's own id is refused: it
\* sets the error, sends no request, and leaves processingUserId and the
\* users list as they are; no revoke request for one's own id is ever sent.
C24_SelfRevokeRefused ==
  /\ [](\A o \in members.ops :
          ~(o.kind = "revoke" /\ o.userId = members.currentUser))
  /\ [][(members'.last # members.last /\ members'.last.outcome = "refused")
        => /\ members'.last.userId = members.currentUser
           /\ members'.error = "self_revoke"
           /\ members'.ops = members.ops
           /\ members'.processingUserId = members.processingUserId
           /\ members'.users = members.users]_vars

C24_Witness ==
  /\ members.last = [kind |-> "revoke", userId |-> members.currentUser,
                     outcome |-> "refused"]
  /\ members.error = "self_revoke"
  /\ members.processingUserId = NoUser /\ members.ops = {}
  /\ \E i \in 1..Len(members.users) :
       /\ members.users[i].id = members.currentUser
       /\ members.users[i].is_system_admin

\* C25: grant and revoke change the users list only when their backend call
\* succeeded, and then only the is_system_admin flag of the entries with the
\* given id; a failed call leaves the list alone and sets an error; either
\* way processingUserId is null when the operation has ended.
C25_OnlyTargetFlagChanges ==
  /\ [][(members'.last.outcome = "started" /\ members'.ops # members.ops)
        => members'.users = members.users]_vars
  /\ [][\A o \in members.ops :
          members'.ops = members.ops \ {o}
          => /\ members'.processingUserId = NoUser
             /\ Len(members'.users) = Len(members.users)
             /\ IF members'.last.outcome = "succeeded"
                THEN \A i \in 1..Len(members.users) :
                       members'.users[i]
                         = IF members.users[i].id = o.userId
                           THEN [members.users[i] EXCEPT
                                   !.is_system_admin = (o.kind = "grant")]
                           ELSE members.users[i]
                ELSE /\ members'.users = members.users
                     /\ members'.error
                          \in {"grant_failed", "revoke_failed"}]_vars

C25_Witness ==
  /\ members.last.outcome = "succeeded" /\ members.last.kind = "revoke"
  /\ members.processingUserId = NoUser
  /\ Len(members.users) = 2
  /\ \E i, j \in 1..Len(members.users) :
       /\ members.users[i].id = members.last.userId
       /\ ~members.users[i].is_system_admin
       /\ members.users[j].id # members.last.userId
       /\ members.users[j].is_system_admin

\* C26: in both clients apiRequest sends nothing when getSession gave no
\* session or one without access token (it has thrown before fetch), and a
\* request that was sent carries Authorization: Bearer <non-empty token>.
C26_NoRequestWithoutToken ==
  /\ (api.phase \notin {"none", "headers"} /\ api.session.token = "")
     => api.phase = "threw" /\ api.request = NoRequest
  /\ api.request # NoRequest
     => /\ api.session.token # ""
        /\ api.request.authorization = "Bearer " \o api.session.token
        /\ api.request.authorization # "Bearer "

C26_Witness ==
  /\ api.client = "main" /\ api.phase = "threw"
  /\ api.outcome = "auth_required"
  /\ api.session \in [user : Users, token : {""}]
  /\ api.request = NoRequest

\* C27: execute sets loading = true and error = null before asyncFn runs;
\* when asyncFn resolves it stores and returns the result; when asyncFn
\* rejects it sets error to the message, leaves data alone and rethrows the
\* same error; either way loading is false when execute has settled.
C27_ExecuteContract ==
  /\ [][asyncState'.pending = asyncState.pending + 1
        => /\ asyncState'.loading /\ asyncState'.error = "null"
           /\ asyncState'.data = asyncState.data]_vars
  /\ [][asyncState'.pending = asyncState.pending - 1
        => /\ ~asyncState'.loading
           /\ IF asyncState'.last.outcome = "resolved"
              THEN /\ asyncState'.data = asyncState'.last.returned
                   /\ asyncState'.data \in AsyncValues
                   /\ asyncState'.error = asyncState.error
              ELSE /\ asyncState'.last.outcome = "rejected"
                   /\ asyncState'.data = asyncState.data
                   /\ asyncState'.last.thrown = asyncState'.last.rejection
                   /\ asyncState'.error
                        = IF asyncState'.last.rejection.isError
                          THEN asyncState'.last.rejection.message
                          ELSE DefaultErrorMessage]_vars

C27_Witness ==
  /\ asyncState.last.outcome = "rejected"
  /\ ~asyncState.last.rejection.isError
  /\ asyncState.error = DefaultErrorMessage
  /\ asyncState.data \in AsyncValues
  /\ ~asyncState.loading /\ asyncState.pending = 1

\* C28: a drop of the dragged row d on another row t gives a list with the
\* same blocks, the dragged block at position t and the other blocks in
\* their previous order, and resets draggedIndex to null; while the modal is
\* open nothing else changes the list.
C28_DropMovesOneBlock ==
  /\ [][(sorter'.lastDrop # NoIndex /\ sorter' # sorter)
        => LET d == sorter.draggedIndex
               t == sorter'.lastDrop
               old == sorter.sortableBlocks
               new == sorter'.sortableBlocks
           IN /\ d # NoIndex /\ d # t
              /\ Len(new) = Len(old)
              /\ \A b \in BlockIds :
                   Cardinality({i \in 1..Len(new) : new[i] = b})
                     = Cardinality({i \in 1..Len(old) : old[i] = b})
              /\ new[t + 1] = old[d + 1]
              /\ SubSeq(new, 1, t) \o SubSeq(new, t + 2, Len(new))
                   = SubSeq(old, 1, d) \o SubSeq(old, d + 2, Len(old))
              /\ sorter'.draggedIndex = NoIndex]_vars
  /\ [][(sorter.modalOpen /\ sorter'.modalOpen
         /\ sorter'.sortableBlocks # sorter.sortableBlocks)
        => sorter'.lastDrop # NoIndex]_vars

C28_Witness ==
  /\ sorter.lastDrop = 0
  /\ sorter.sortableBlocks = <<"b3", "b1", "b2">>
  /\ sorter.draggedIndex = NoIndex /\ sorter.modalOpen

\* an edit of a field ends in this step without its value being saved
EditRefused ==
  /\ editor' # editor
  /\ editor'.last.outcome \in {"empty_title", "too_long", "failed"}

\* C29: an empty or whitespace title, a title over 100 characters and a
\* content over 400 characters send no update; in these cases and when the
\* update fails the field's edit flag is true afterwards and onError has
\* been called; saveLoading is false after the operation ended.
C29_RefusedEditStaysOpen ==
  [][EditRefused
     => /\ editor'.editStates[editor'.last.blockId][editor'.last.field]
        /\ editor'.last.onError # "none"
        /\ editor'.last.outcome # "failed" => editor'.updates = editor.updates
        /\ ~editor'.saveLoading]_vars

\* C29, amended: as above, but the refusal of an empty title returns before
\* the try block and leaves saveLoading as it was; saveLoading is false
\* after the length checks refused and after a failed update.
C29_RefusedEditStaysOpenAmended ==
  [][EditRefused
     => /\ editor'.editStates[editor'.last.blockId][editor'.last.field]
        /\ editor'.last.onError # "none"
        /\ editor'.last.outcome # "failed" => editor'.updates = editor.updates
        /\ IF editor'.last.outcome = "empty_title"
           THEN editor'.saveLoading = editor.saveLoading
           ELSE ~editor'.saveLoading]_vars

C29_Witness ==
  /\ editor.last.outcome = "empty_title"
  /\ editor.last.onError = "title_required"
  /\ editor.editStates["b1"]["title"]
  /\ editor.saveLoading
  /\ editor.updates = {[blockId |-> "b1", field |-> "content"]}

TypeOK ==
  /\ store \in Sessions \cup {NoSession}
  /\ user \in Users \cup {NoUser}
  /\ session \in Sessions \cup {NoSession}
  /\ loading \in BOOLEAN
  /\ isSystemAdmin \in BOOLEAN
  /\ pc \in [Handlers -> Phases]
  /\ nInitial \in 0..MaxInitialEvents
  /\ nEvents \in 0..MaxEvents
  /\ view \in Views
  /\ mounted \in BOOLEAN
  /\ call.phase \in CallPhases
  /\ signingOut.phase \in {"idle", "pending", "returned"}
  /\ mainAuth.route \in Paths
  /\ mainAuth.awaiting \in 0..MaxMainEvents
  /\ members.ops \subseteq Ops
  /\ api.phase \in {"none", "headers", "fetch", "returned", "threw"}
  /\ asyncState.pending \in 0..MaxExecutes
  /\ sorter.draggedIndex \in {NoIndex} \cup 0..(MaxBlocks - 1)
  /\ editor.updates \subseteq [blockId : EditedBlocks, field : Fields]

====
